---- MODULE Spec2Model ----
(***************************************************************************)
(* A model of spark_rapids_dataproc_tools/dataproc_utils.py: the GPU and   *)
(* machine compatibility rules, the command runner (CMDRunner) and the     *)
(* live and shadow cluster property containers.                            *)
(*                                                                         *)
(* Python text is a sequence of one-character strings, so that split,      *)
(* startswith, find, upper/lower, int() and the regular expression are     *)
(* computed character by character as the interpreter computes them.       *)
(* A Python value is a record [t |-> <type>, v |-> <value>].               *)
(***************************************************************************)
EXTENDS Integers, Sequences, FiniteSets, TLC

VARIABLES
  fail_action,    \* CMDRunner.fail_action: "None", or the installed handler
  debug,          \* CMDRunner.debug
  container,      \* the class of the property container: "live", "shadow"
  props,          \* YAMLPropertiesContainer.props, the loaded document
  uuid,           \* DataprocClusterPropContainer.uuid
  workers_count,  \* DataprocClusterPropContainer.workers_count
  call,           \* the operation invoked last, with its inputs
  outcome,        \* how that operation ended
  ret,            \* the value it returned, when it returned
  bails,          \* the bail(headline, error) calls it made
  handled,        \* the fail_action(error, message) calls it made
  log             \* the records it handed to the logger

vars == <<fail_action, debug, container, props, uuid, workers_count,
          call, outcome, ret, bails, handled, log>>

runner == <<fail_action, debug>>
fields == <<container, props, uuid, workers_count>>
last == <<call, outcome, ret, bails, handled, log>>

----------------------------------------------------------------------------
(* Text *)

Lowers == <<"a", "b", "c", "d", "e", "f", "g", "h", "i", "j", "k", "l", "m", "n", "o", "p", "q", "r", "s", "t", "u", "v", "w", "x", "y", "z">>
Uppers == <<"A", "B", "C", "D", "E", "F", "G", "H", "I", "J", "K", "L", "M", "N", "O", "P", "Q", "R", "S", "T", "U", "V", "W", "X", "Y", "Z">>
Digits == <<"0", "1", "2", "3", "4", "5", "6", "7", "8", "9">>

Range(s) == {s[i] : i \in DOMAIN s}

IndexIn(c, s) == CHOOSE i \in DOMAIN s : s[i] = c

UpperChar(c) == IF c \in Range(Lowers) THEN Uppers[IndexIn(c, Lowers)] ELSE c
LowerChar(c) == IF c \in Range(Uppers) THEN Lowers[IndexIn(c, Uppers)] ELSE c

\* str.upper(), str.lower()
Upper(s) == [i \in DOMAIN s |-> UpperChar(s[i])]
Lower(s) == [i \in DOMAIN s |-> LowerChar(s[i])]

\* str.startswith(prefix)
StartsWith(s, p) == Len(s) >= Len(p) /\ SubSeq(s, 1, Len(p)) = p

\* str.find(sub) != -1
Contains(s, sub) ==
  \E i \in 1..(Len(s) - Len(sub) + 1) : SubSeq(s, i, i + Len(sub) - 1) = sub

\* str.split(sep) for a one-character separator: never empty, "" gives [""]
RECURSIVE SplitFrom(_, _, _, _)
SplitFrom(s, sep, i, cur) ==
  IF i > Len(s) THEN <<cur>>
  ELSE IF s[i] = sep THEN <<cur>> \o SplitFrom(s, sep, i + 1, <<>>)
  ELSE SplitFrom(s, sep, i + 1, Append(cur, s[i]))

Split(s, sep) == SplitFrom(s, sep, 1, <<>>)

\* The control characters that a string cannot be written with: vertical tab
\* and the file, group, record and unit separators (0x0b, 0x1c to 0x1f).
ch_VT == "<VT>"
ch_FS == "<FS>"
ch_GS == "<GS>"
ch_RS == "<RS>"
ch_US == "<US>"

\* Texts are ASCII.  Of ASCII, these end a line for str.splitlines(), these
\* are white space for the \s of re, and these are white space for int().
LineEnds == {"\n", "\r", ch_VT, "\f", ch_FS, ch_GS, ch_RS}
Whitespace == {" ", "\t", "\n", "\r", ch_VT, "\f", ch_FS, ch_GS, ch_RS, ch_US}
IntSpace == {" ", "\t", "\n", "\r", ch_VT, "\f"}

\* str.splitlines(): the lines without their terminators, \r\n being one
\* terminator; no empty last line
RECURSIVE SplitLinesFrom(_, _, _)
SplitLinesFrom(s, i, cur) ==
  IF i > Len(s) THEN (IF cur = <<>> THEN <<>> ELSE <<cur>>)
  ELSE IF s[i] = "\r" /\ i < Len(s) /\ s[i + 1] = "\n"
       THEN <<cur>> \o SplitLinesFrom(s, i + 2, <<>>)
  ELSE IF s[i] \in LineEnds THEN <<cur>> \o SplitLinesFrom(s, i + 1, <<>>)
  ELSE SplitLinesFrom(s, i + 1, Append(cur, s[i]))

SplitLines(s) == SplitLinesFrom(s, 1, <<>>)

\* sep.join(parts)
RECURSIVE JoinWith(_, _)
JoinWith(parts, sep) ==
  IF parts = <<>> THEN <<>>
  ELSE IF Len(parts) = 1 THEN parts[1]
  ELSE parts[1] \o <<sep>> \o JoinWith(Tail(parts), sep)

IsDigit(c) == c \in Range(Digits)
DigitVal(c) == IndexIn(c, Digits) - 1

RECURSIVE DigitsValue(_)
DigitsValue(s) ==
  IF s = <<>> THEN 0
  ELSE 10 * DigitsValue(SubSeq(s, 1, Len(s) - 1)) + DigitVal(s[Len(s)])

\* without the white space that int() skips at both ends
RECURSIVE Strip(_)
Strip(s) ==
  IF s = <<>> THEN s
  ELSE IF s[1] \in IntSpace THEN Strip(Tail(s))
  ELSE IF s[Len(s)] \in IntSpace THEN Strip(SubSeq(s, 1, Len(s) - 1))
  ELSE s

\* the digits of an integer literal: single underscores may stand between
\* digits
DigitGroups(s) ==
  /\ s # <<>>
  /\ IsDigit(s[1])
  /\ IsDigit(s[Len(s)])
  /\ \A i \in DOMAIN s : IsDigit(s[i]) \/ s[i] = "_"
  /\ \A i \in 1..(Len(s) - 1) : ~(s[i] = "_" /\ s[i + 1] = "_")

Unsigned(s) == IF s # <<>> /\ s[1] \in {"+", "-"} THEN Tail(s) ELSE s

\* int(text): white space around, an optional sign, decimal digits; anything
\* else is a ValueError
IntParses(s) == DigitGroups(Unsigned(Strip(s)))

IntOf(s) ==
  LET stripped == Strip(s)
      magnitude == DigitsValue(SelectSeq(Unsigned(stripped), IsDigit))
  IN IF stripped[1] = "-" THEN 0 - magnitude ELSE magnitude

\* "{}".format(n) for an integer n
RECURSIVE NatToStr(_)
NatToStr(n) ==
  IF n < 10 THEN <<Digits[n + 1]>>
  ELSE NatToStr(n \div 10) \o <<Digits[(n % 10) + 1]>>

IntToStr(n) == IF n < 0 THEN <<"-">> \o NatToStr(0 - n) ELSE NatToStr(n)

----------------------------------------------------------------------------
(* Python values and results of calls *)

None == [t |-> "None"]
PyStr(s) == [t |-> "str", v |-> s]
PyInt(n) == [t |-> "int", v |-> n]
PyBool(b) == [t |-> "bool", v |-> b]
PyDict(d) == [t |-> "dict", v |-> d]
PyTuple(s) == [t |-> "tuple", v |-> s]

\* dict(): a mapping from keys to values; d[k] = v
EmptyDict == <<>>
Put(d, k, v) == [x \in (DOMAIN d) \cup {k} |-> IF x = k THEN v ELSE d[x]]

\* How a call ends: kind is "returned", or the name of the exception it
\* raised and nothing in this module catches, or "bailed" (the program was
\* halted by bail) or "exited" (the installed fail_action ended the program);
\* with it go the bail calls, fail_action calls and log records it made.
Ended(kind, v, b, h, l) ==
  [kind |-> kind, value |-> v, bails |-> b, handled |-> h, log |-> l]

Returned(v) == Ended("returned", v, <<>>, <<>>, <<>>)
Raised(exc) == Ended(exc, None, <<>>, <<>>, <<>>)

----------------------------------------------------------------------------
(* GPU and machine compatibility rules *)

supported_list == << <<"T", "4">>, <<"V", "1", "0", "0">>, <<"K", "8", "0">>, <<"A", "1", "0", "0">>, <<"P", "1", "0", "0">> >>

parse_supported_gpu(value) ==
  LET normalized == Upper(value)
      hits == {i \in DOMAIN supported_list : Contains(normalized, supported_list[i])}
  IN IF hits = {} THEN None
     ELSE PyStr(supported_list[CHOOSE i \in hits : \A j \in hits : i <= j])

is_machine_compatible_for_gpu(machine_type) ==
  StartsWith(Lower(machine_type), <<"n", "1", "-">>)

dataproc_n1_cores == <<2, 4, 8, 16, 32, 64, 96>>

get_core_gt(core) ==
  LET fit == {i \in DOMAIN dataproc_n1_cores : dataproc_n1_cores[i] > core}
  IN IF fit = {} THEN dataproc_n1_cores[Len(dataproc_n1_cores)]
     ELSE dataproc_n1_cores[CHOOSE i \in fit : \A j \in fit : i <= j]

get_core(core) ==
  LET fit == {i \in DOMAIN dataproc_n1_cores : dataproc_n1_cores[i] >= core}
  IN IF fit = {} THEN dataproc_n1_cores[Len(dataproc_n1_cores)]
     ELSE dataproc_n1_cores[CHOOSE i \in fit : \A j \in fit : i <= j]

\* instance_name_parts[1] is evaluated before int(original_core)
map_to_closest_supported_match(machine_type) ==
  LET instance_name_parts == Split(machine_type, "-")
      original_core == instance_name_parts[Len(instance_name_parts)]
  IN IF Len(instance_name_parts) < 2 THEN Raised("IndexError")
     ELSE IF ~IntParses(original_core) THEN Raised("ValueError")
     ELSE Returned(PyStr(<<"n", "1", "-">> \o instance_name_parts[2] \o <<"-">>
                         \o IntToStr(get_core(IntOf(original_core)))))

\* The texts of the comments (the f-strings of lines 88-91, 97-100, 105-108)
image_comment_head ==
  <<"T", "h", "e", " ", "c", "l", "u", "s", "t", "e", "r", " ", "i", "m">>
  \o <<"a", "g", "e", " ">>
image_comment_tail ==
  <<" ", "i", "s", " ", "n", "o", "t", " ", "s", "u", "p", "p", "o", "r">>
  \o <<"t", "e", "d", ".", " ", "T", "o", " ", "s", "u", "p", "p", "o", "r">>
  \o <<"t", " ", "t", "h", "e", " ", "R", "A", "P", "I", "D", "S", " ", "u">>
  \o <<"s", "e", "r", " ", "t", "o", "o", "l", "s", ",", " ", "y", "o", "u">>
  \o <<" ", "w", "i", "l", "l", " ", "n", "e", "e", "d", " ", "t", "o", " ">>
  \o <<"u", "s", "e", " ", "a", "n", " ", "i", "m", "a", "g", "e", " ", "t">>
  \o <<"h", "a", "t", " ", "r", "u", "n", "s", " ", "S", "p", "a", "r", "k">>
  \o <<"3", ".", "x", ".">>
machine_comment_head ==
  <<"T", "o", " ", "s", "u", "p", "p", "o", "r", "t", " ", "a", "c", "c">>
  \o <<"e", "l", "e", "r", "a", "t", "i", "o", "n", " ", "w", "i", "t", "h">>
  \o <<" ", "T", "4", " ", "G", "P", "U", "s", ",", " ", "y", "o", "u", " ">>
  \o <<"w", "i", "l", "l", " ", "n", "e", "e", "d", " ", "t", "o", " ", "s">>
  \o <<"w", "i", "t", "c", "h", " ", "y", "o", "u", "r", " ", "w", "o", "r">>
  \o <<"k", "e", "r", " ", "n", "o", "d", "e", " ", "i", "n", "s", "t", "a">>
  \o <<"n", "c", "e", " ", "t", "y", "p", "e", " ", "<">>
machine_comment_mid == <<">", " ", "t", "o", " ">>
machine_comment_tail == <<".">>
ssd_comment ==
  <<"W", "o", "r", "k", "e", "r", " ", "n", "o", "d", "e", "s", " ", "h">>
  \o <<"a", "v", "e", " ", "n", "o", " ", "l", "o", "c", "a", "l", " ", "S">>
  \o <<"S", "D", "s", ".", " ", "L", "o", "c", "a", "l", " ", "S", "S", "D">>
  \o <<" ", "i", "s", " ", "r", "e", "c", "o", "m", "m", "e", "n", "d", "e">>
  \o <<"d", " ", "f", "o", "r", " ", "S", "p", "a", "r", "k", " ", "s", "c">>
  \o <<"r", "a", "t", "c", "h", " ", "s", "p", "a", "c", "e", " ", "t", "o">>
  \o <<" ", "i", "m", "p", "r", "o", "v", "e", " ", "I", "O", ".">>

image_version_prefix == <<"1", ".", "5">>

ImageVersionFails(image_ver) == StartsWith(image_ver, image_version_prefix)

LocalSsdsFail(local_ssds) == local_ssds = 0

\* get_incompatible_criteria(**criteria_container): criteria_container maps
\* the names of the supplied criteria to their values.  The only call that can
\* raise is map_to_closest_supported_match, and it raises before anything of
\* the machineType criterion is recorded.
get_incompatible_criteria(criteria_container) ==
  LET keys == DOMAIN criteria_container
      image_bad == "imageVersion" \in keys
                     /\ ImageVersionFails(criteria_container["imageVersion"])
      machine_bad == "machineType" \in keys
                       /\ ~is_machine_compatible_for_gpu(criteria_container["machineType"])
      ssd_bad == "workerLocalSSDs" \in keys
                   /\ LocalSsdsFail(criteria_container["workerLocalSSDs"])
      converted == map_to_closest_supported_match(criteria_container["machineType"])
      inc1 == IF image_bad
              THEN Put(EmptyDict, "imageVersion", PyStr(<<"2", ".", "0", "+">>))
              ELSE EmptyDict
      com1 == IF image_bad
              THEN Put(EmptyDict, "imageVersion",
                       PyStr(image_comment_head \o criteria_container["imageVersion"]
                             \o image_comment_tail))
              ELSE EmptyDict
      inc2 == IF machine_bad THEN Put(inc1, "machineType", converted.value) ELSE inc1
      com2 == IF machine_bad
              THEN Put(com1, "machineType",
                       PyStr(machine_comment_head \o criteria_container["machineType"]
                             \o machine_comment_mid \o converted.value.v
                             \o machine_comment_tail))
              ELSE com1
      inc3 == IF ssd_bad THEN Put(inc2, "workerLocalSSDs", PyInt(1)) ELSE inc2
      com3 == IF ssd_bad THEN Put(com2, "workerLocalSSDs", PyStr(ssd_comment)) ELSE com2
      incompatible == IF DOMAIN com3 # {} THEN Put(inc3, "comments", PyDict(com3)) ELSE inc3
  IN IF machine_bad /\ converted.kind # "returned" THEN converted
     ELSE Returned(PyDict(incompatible))

----------------------------------------------------------------------------
(* CMDRunner *)

\* The texts of the messages (lines 145-149, 155, 169-177, 181, 185)
err_head ==
  <<"E", "r", "r", "o", "r", " ", "i", "n", "v", "o", "k", "i", "n", "g">>
  \o <<" ", "C", "M", "D", " ", "<">>
err_mid == <<">", ":", " ">>
line_mark == <<"\t", "|", " ">>
generic_headline ==
  <<"E", "r", "r", "o", "r", " ", "i", "n", "v", "o", "k", "i", "n", "g">>
  \o <<" ", "c", "m", "d">>
log_head ==
  <<"e", "x", "e", "c", "u", "t", "i", "n", "g", " ", "C", "M", "D", ":">>
  \o <<"\n", "\t", "<", "C", "M", "D", ":", " ">>
log_cmd_end == <<">">>
stdout_head == <<"\n", "\t", "<", "S", "T", "D", "O", "U", "T", ">", "\n">>
stderr_head == <<"\n", "\t", "<", "S", "T", "D", "E", "R", "R", ">", "\n">>
gcloud_prefix == <<"g", "c", "l", "o", "u", "d", " ">>
gsutil_prefix == <<"g", "s", "u", "t", "i", "l", " ">>

\* An exception object: its type and its message
PyExc(type, msg) == [t |-> type, v |-> msg]

\* bool(value) of an Optional[str]
Truthy(value) == value.t = "str" /\ value.v # <<>>

\* bail(msg, err), of the utilities library: reports the headline and the
\* error and terminates the process
bail(msg, err) == Ended("bailed", None, << <<msg, err>> >>, <<>>, <<>>)

\* self.fail_action(ex, msg): fail_action is None until a handler is assigned
\* to it, and calling None is a TypeError; an installed handler either returns
\* to its caller ("continue") or ends the program itself ("exit").
call_fail_action(fa, ex, msg) ==
  IF fa = "None" THEN Raised("TypeError")
  ELSE IF fa = "continue" THEN Ended("returned", None, <<>>, << <<ex, msg>> >>, <<>>)
  ELSE Ended("exited", None, <<>>, << <<ex, msg>> >>, <<>>)

\* [f"\t| {line}" for line in text.splitlines()] joined by "\n"
MarkedLines(text) ==
  LET lines == SplitLines(text)
  IN JoinWith([i \in DOMAIN lines |-> line_mark \o lines[i]], "\n")

ExitCodeNonZero(returncode, expected) == returncode # 0

ExitCodeUnexpected(returncode, expected) == returncode # expected

\* c is the completed process: args, returncode, stdout, stderr
check_subprocess_result(fa, c, expected, msg_fail) ==
  IF ~ExitCodeUnexpected(c.returncode, expected) THEN Returned(None)
  ELSE LET stderr_str == IF SplitLines(c.stderr) # <<>>
                         THEN <<"\n">> \o MarkedLines(c.stderr) ELSE <<>>
           ex == PyExc("Exception", err_head \o c.args \o err_mid \o stderr_str)
       IN IF fa = "None"
          THEN IF Truthy(msg_fail) THEN bail(msg_fail, ex)
               ELSE bail(PyStr(generic_headline), ex)
          ELSE call_fail_action(fa, ex, msg_fail)

NeedsCheckAlways(fail_ok) == TRUE

NeedsCheck(fail_ok) == ~fail_ok

\* the record handed to logger.debug
debug_record(cmd, std_output, std_error) ==
  LET stdout_str == IF SplitLines(std_output) # <<>>
                    THEN stdout_head \o MarkedLines(std_output) ELSE <<>>
      stderr_str == IF SplitLines(std_error) # <<>>
                    THEN stderr_head \o MarkedLines(std_error) ELSE <<>>
  IN [level |-> "debug", msg |-> log_head \o cmd \o log_cmd_end \o stdout_str \o stderr_str]

\* run(cmd, expected, fail_ok, msg_fail); proc is what the child process did:
\* returncode, stdout, stderr.  The streams are ASCII, which decode('utf-8')
\* leaves as it is.
run(fa, dbg, cmd, expected, fail_ok, msg_fail, proc) ==
  LET c == [args |-> cmd, returncode |-> proc.returncode,
            stdout |-> proc.stdout, stderr |-> proc.stderr]
      checked == IF NeedsCheck(fail_ok)
                 THEN check_subprocess_result(fa, c, expected, msg_fail)
                 ELSE Returned(None)
      std_output == c.stdout
      std_error == c.stderr
  IN IF checked.kind # "returned" THEN checked
     ELSE Ended("returned", PyStr(std_output), <<>>, checked.handled,
                IF dbg THEN <<debug_record(cmd, std_output, std_error)>> ELSE <<>>)

gcloud(fa, dbg, cmd, expected, msg_fail, fail_ok, proc) ==
  run(fa, dbg, gcloud_prefix \o cmd, expected, fail_ok, msg_fail, proc)

gsutil(fa, dbg, cmd, expected, msg_fail, fail_ok, proc) ==
  run(fa, dbg, gsutil_prefix \o cmd, expected, fail_ok, msg_fail, proc)

----------------------------------------------------------------------------
(* The loaded document and its lookups *)

\* The keys and texts of lines 236-381
k_clusterUuid == <<"c", "l", "u", "s", "t", "e", "r", "U", "u", "i", "d">>
k_config == <<"c", "o", "n", "f", "i", "g">>
k_clusterConfig == <<"c", "l", "u", "s", "t", "e", "r", "C", "o", "n", "f", "i", "g">>
k_workerConfig == <<"w", "o", "r", "k", "e", "r", "C", "o", "n", "f", "i", "g">>
k_numInstances == <<"n", "u", "m", "I", "n", "s", "t", "a", "n", "c", "e", "s">>
k_instanceNames == <<"i", "n", "s", "t", "a", "n", "c", "e", "N", "a", "m", "e", "s">>
k_machineTypeUri == <<"m", "a", "c", "h", "i", "n", "e", "T", "y", "p", "e", "U", "r", "i">>
k_gceClusterConfig ==
  <<"g", "c", "e", "C", "l", "u", "s", "t", "e", "r", "C", "o", "n", "f">>
  \o <<"i", "g">>
k_zoneUri == <<"z", "o", "n", "e", "U", "r", "i">>
k_softwareConfig == <<"s", "o", "f", "t", "w", "a", "r", "e", "C", "o", "n", "f", "i", "g">>
k_imageVersion == <<"i", "m", "a", "g", "e", "V", "e", "r", "s", "i", "o", "n">>
config_suffix == <<"C", "o", "n", "f", "i", "g">>
node_master == <<"m", "a", "s", "t", "e", "r">>
node_worker == <<"w", "o", "r", "k", "e", "r">>
s_zones == <<"z", "o", "n", "e", "s">>
s_machineTypes == <<"m", "a", "c", "h", "i", "n", "e", "T", "y", "p", "e", "s">>
uri_error_head ==
  <<"U", "n", "a", "b", "l", "e", " ", "t", "o", " ", "p", "a", "r", "s">>
  \o <<"e", " ", "m", "a", "c", "h", "i", "n", "e", " ", "t", "y", "p", "e">>
  \o <<" ", "f", "r", "o", "m", " ", "m", "a", "c", "h", "i", "n", "e", " ">>
  \o <<"t", "y", "p", "e", " ", "U", "R", "I", ":", " ">>
cpu_headline ==
  <<"F", "a", "i", "l", "e", "d", " ", "w", "h", "i", "l", "e", " ", "p">>
  \o <<"r", "o", "c", "e", "s", "s", "i", "n", "g", " ", "C", "P", "U", " ">>
  \o <<"i", "n", "f", "o">>
device_error_head ==
  <<"U", "n", "r", "e", "c", "o", "g", "n", "i", "z", "e", "d", " ", "t">>
  \o <<"e", "s", "l", "a", " ", "d", "e", "v", "i", "c", "e", ":", " ">>
device_headline ==
  <<"F", "a", "i", "l", "e", "d", " ", "w", "h", "i", "l", "e", " ", "p">>
  \o <<"r", "o", "c", "e", "s", "s", "i", "n", "g", " ", "G", "p", "u", "D">>
  \o <<"e", "v", "i", "c", "e">>
memory_error_head ==
  <<"U", "n", "r", "e", "c", "o", "g", "n", "i", "z", "e", "d", " ", "G">>
  \o <<"P", "U", " ", "m", "e", "m", "o", "r", "y", " ", "o", "u", "t", "p">>
  \o <<"u", "t", " ", "f", "o", "r", "m", "a", "t", ":", " ">>
no_gpu_message ==
  <<"C", "l", "u", "s", "t", "e", "r", " ", "d", "o", "e", "s", " ", "n">>
  \o <<"o", "t", " ", "s", "u", "p", "p", "o", "r", "t", " ", "G", "P", "U">>
  \o <<".", " ", "P", "l", "e", "a", "s", "e", " ", "i", "n", "s", "t", "a">>
  \o <<"l", "l", " ", "N", "V", "I", "D", "I", "A", " ", "d", "r", "i", "v">>
  \o <<"e", "r", "s", ".">>
ssh_head == <<"c", "o", "m", "p", "u", "t", "e", " ", "s", "s", "h", " ">>
ssh_zone == <<" ", "-", "-", "z", "o", "n", "e", "=">>
name_query_tail ==
  <<" ", "-", "-", "c", "o", "m", "m", "a", "n", "d", "=", "'", "n", "v">>
  \o <<"i", "d", "i", "a", "-", "s", "m", "i", " ", "-", "-", "q", "u", "e">>
  \o <<"r", "y", "-", "g", "p", "u", "=", "g", "p", "u", "_", "n", "a", "m">>
  \o <<"e", " ", "-", "-", "f", "o", "r", "m", "a", "t", "=", "c", "s", "v">>
  \o <<",", "n", "o", "h", "e", "a", "d", "e", "r", "'">>
memory_query_tail ==
  <<" ", "-", "-", "c", "o", "m", "m", "a", "n", "d", "=", "'", "n", "v">>
  \o <<"i", "d", "i", "a", "-", "s", "m", "i", " ", "-", "-", "q", "u", "e">>
  \o <<"r", "y", "-", "g", "p", "u", "=", "m", "e", "m", "o", "r", "y", ".">>
  \o <<"t", "o", "t", "a", "l", " ", "-", "-", "f", "o", "r", "m", "a", "t">>
  \o <<"=", "c", "s", "v", ",", "n", "o", "h", "e", "a", "d", "e", "r", "'">>
s_MiB == <<"M", "i", "B">>

\* A mapping of the document: a dict, kept as the sequence of its (key, value)
\* items in insertion order, the order in which items() yields them.
Doc(items) == [t |-> "dict", items |-> items]
PyList(elems) == [t |-> "list", v |-> elems]

HasKey(d, k) == \E i \in DOMAIN d.items : d.items[i][1] = k
Item(d, k) == d.items[CHOOSE i \in DOMAIN d.items : d.items[i][1] = k][2]

\* first, then second: second's result with the calls and records of both
AndThen(first, second) ==
  Ended(second.kind, second.value, first.bails \o second.bails,
        first.handled \o second.handled, first.log \o second.log)

\* get_value(*keys), of YAMLPropertiesContainer: the value at the path of
\* keys; a path that is not in the document (or no document at all) is the
\* fatal missing-configuration error.
RECURSIVE get_value(_, _)
get_value(document, keys) ==
  IF keys = <<>> THEN Returned(document)
  ELSE IF document.t = "dict" /\ HasKey(document, keys[1])
       THEN get_value(Item(document, keys[1]), Tail(keys))
  ELSE Raised("missing_config")

----------------------------------------------------------------------------
(* DataprocClusterPropContainer *)

\* uri.split("/")[-4:]
LastFour(parts) ==
  IF Len(parts) <= 4 THEN parts ELSE SubSeq(parts, Len(parts) - 3, Len(parts))

\* uri_parts[0] != "zones" or uri_parts[2] != "machineTypes"
UriMismatch(uri_parts) == uri_parts[1] # s_zones \/ uri_parts[3] # s_machineTypes

\* __decode_machine_type_uri(uri).  A split never gives an empty list, so
\* uri_parts[0] exists; uri_parts[2], [1] and [3] may not.
decode_machine_type_uri(fa, uri) ==
  LET uri_parts == LastFour(Split(uri, "/"))
      after_check ==
        IF uri_parts[1] = s_zones /\ Len(uri_parts) < 3 THEN Raised("IndexError")
        ELSE IF UriMismatch(uri_parts)
             THEN call_fail_action(fa, PyExc("ValueError", uri_error_head \o uri),
                                   PyStr(cpu_headline))
        ELSE Returned(None)
  IN IF after_check.kind # "returned" THEN after_check
     ELSE IF Len(uri_parts) < 4 THEN AndThen(after_check, Raised("IndexError"))
     ELSE AndThen(after_check,
                  Returned(PyTuple(<<PyStr(uri_parts[2]), PyStr(uri_parts[4])>>)))

\* '{}Config'.format(node_type)
NodeConfigKey(node_type) == node_type \o config_suffix

\* _get_machine_info_for_node(node_type), of the live container
get_machine_info_for_node(fa, document, node_type) ==
  LET type_uri == get_value(document, <<k_config, NodeConfigKey(node_type), k_machineTypeUri>>)
      decoded == decode_machine_type_uri(fa, type_uri.value.v)
      zone == decoded.value.v[1].v
      machine_type == decoded.value.v[2].v
      zone_parts == Split(zone, "-")
  IN IF type_uri.kind # "returned" THEN type_uri
     ELSE IF decoded.kind # "returned" THEN decoded
     ELSE IF Len(zone_parts) < 2 THEN AndThen(decoded, Raised("IndexError"))
     ELSE AndThen(decoded,
                  Returned(PyTuple(<<PyStr(zone_parts[1] \o <<"-">> \o zone_parts[2]),
                                     PyStr(zone), PyStr(machine_type)>>)))

\* get_image_version()
get_image_version(document) ==
  get_value(document, <<k_config, k_softwareConfig, k_imageVersion>>)

\* the index of the last "/" of the text, 0 when there is none
LastSlash(text) ==
  LET at == {i \in DOMAIN text : text[i] = "/"}
  IN IF at = {} THEN 0 ELSE CHOOSE i \in at : \A j \in at : j <= i

\* get_zone(): rindex raises ValueError when the URI has no "/"
get_zone(document) ==
  LET zoneuri == get_value(document, <<k_config, k_gceClusterConfig, k_zoneUri>>)
      text == zoneuri.value.v
  IN IF zoneuri.kind # "returned" THEN zoneuri
     ELSE IF LastSlash(text) = 0 THEN Raised("ValueError")
     ELSE Returned(PyStr(SubSeq(text, LastSlash(text) + 1, Len(text))))

\* self.get_value('config', 'workerConfig', 'instanceNames')[0]
first_worker(document) ==
  LET names == get_value(document, <<k_config, k_workerConfig, k_instanceNames>>)
  IN IF names.kind # "returned" THEN names
     ELSE IF names.value.v = <<>> THEN Raised("IndexError")
     ELSE Returned(names.value.v[1])

\* the gcloud command of lines 347-350 and 370-373
ssh_command(worker, zone, query_tail) ==
  ssh_head \o worker \o ssh_zone \o zone \o query_tail

\* the loop of lines 356-361: its body ends in `return gpu_device`, so it is
\* left in its first pass; with no line at all the function falls off its end
\* and returns None
device_loop(fa, all_lines) ==
  IF all_lines = <<>> THEN Returned(None)
  ELSE LET line == all_lines[1]
           gpu_device == parse_supported_gpu(line)
           failed == IF gpu_device.t = "None"
                     THEN call_fail_action(fa, PyExc("ValueError", device_error_head \o line),
                                           PyStr(device_headline))
                     ELSE Returned(None)
       IN IF failed.kind # "returned" THEN failed
          ELSE AndThen(failed, Returned(gpu_device))

\* get_worker_gpu_device(); proc is what the remote command did
get_worker_gpu_device(fa, dbg, document, proc) ==
  LET zone == get_zone(document)
      worker == first_worker(document)
      gpu_cmd == ssh_command(worker.value.v, zone.value.v, name_query_tail)
      gpu_devices == gcloud(fa, dbg, gpu_cmd, 0, None, FALSE, proc)
      all_lines == SplitLines(gpu_devices.value.v)
      no_lines == IF all_lines = <<>>
                  THEN call_fail_action(fa, PyExc("ValueError",
                                                  device_error_head \o gpu_devices.value.v),
                                        PyStr(device_headline))
                  ELSE Returned(None)
  IN IF zone.kind # "returned" THEN zone
     ELSE IF worker.kind # "returned" THEN worker
     ELSE IF gpu_devices.kind # "returned" THEN gpu_devices
     ELSE IF no_lines.kind # "returned" THEN AndThen(gpu_devices, no_lines)
     ELSE AndThen(AndThen(gpu_devices, no_lines), device_loop(fa, all_lines))

\* the \s of re
IsSpace(c) == c \in Whitespace

\* the end of the longest run of characters satisfying Is that starts at i
\* (i - 1 when s[i] does not satisfy it)
RECURSIVE DigitRunEnd(_, _)
DigitRunEnd(s, i) ==
  IF i <= Len(s) /\ IsDigit(s[i]) THEN DigitRunEnd(s, i + 1) ELSE i - 1

RECURSIVE SpaceRunEnd(_, _)
SpaceRunEnd(s, i) ==
  IF i <= Len(s) /\ IsSpace(s[i]) THEN SpaceRunEnd(s, i + 1) ELSE i - 1

\* re.findall("(\d+)\s+(MiB)", text): the matches from left to right, without
\* overlap.  \d+ and \s+ are greedy, and giving characters back cannot make a
\* failed attempt succeed: after fewer digits comes a digit, after fewer
\* blanks a blank.
RECURSIVE FindAllFrom(_, _)
FindAllFrom(s, i) ==
  IF i > Len(s) THEN <<>>
  ELSE LET j == DigitRunEnd(s, i)
           k == SpaceRunEnd(s, j + 1)
       IN IF j >= i /\ k > j /\ k + 3 <= Len(s) /\ SubSeq(s, k + 1, k + 3) = s_MiB
          THEN << <<SubSeq(s, i, j), s_MiB>> >> \o FindAllFrom(s, k + 4)
          ELSE FindAllFrom(s, i + 1)

FindAll(text) == FindAllFrom(text, 1)

Max(a, b) == IF a >= b THEN a ELSE b

\* the loop of lines 382-383
RECURSIVE memory_loop(_, _)
memory_loop(match_arr, gpu_mem) ==
  IF match_arr = <<>> THEN gpu_mem
  ELSE memory_loop(Tail(match_arr), Max(IntOf(match_arr[1][1]), gpu_mem))

\* get_worker_gpu_info(); fail_action is called with the error alone, so the
\* handler sees no message
get_worker_gpu_info(fa, dbg, document, proc) ==
  LET zone == get_zone(document)
      worker == first_worker(document)
      gpu_cmd == ssh_command(worker.value.v, zone.value.v, memory_query_tail)
      gpu_info == gcloud(fa, dbg, gpu_cmd, 0, PyStr(no_gpu_message), FALSE, proc)
      match_arr == FindAll(gpu_info.value.v)
      num_gpus == Len(match_arr)
      no_match == IF num_gpus = 0
                  THEN call_fail_action(fa, PyExc("ValueError",
                                                  memory_error_head \o gpu_info.value.v),
                                        None)
                  ELSE Returned(None)
  IN IF zone.kind # "returned" THEN zone
     ELSE IF worker.kind # "returned" THEN worker
     ELSE IF gpu_info.kind # "returned" THEN gpu_info
     ELSE IF no_match.kind # "returned" THEN AndThen(gpu_info, no_match)
     ELSE AndThen(AndThen(gpu_info, no_match),
                  Returned(PyTuple(<<PyInt(num_gpus), PyInt(memory_loop(match_arr, 0))>>)))

----------------------------------------------------------------------------
(* Construction, and the pre-processing of the shadow container *)

s_underscore == <<"_">>
k_cluster_config == <<"c", "l", "u", "s", "t", "e", "r", "_", "c", "o", "n", "f", "i", "g">>
k_wrapper == <<"w", "r", "a", "p", "p", "e", "r">>
k_other_key == <<"o", "t", "h", "e", "r", "_", "k", "e", "y">>
k_otherKey == <<"o", "t", "h", "e", "r", "K", "e", "y">>

\* str.capitalize()
Capitalize(word) ==
  [i \in DOMAIN word |-> IF i = 1 THEN UpperChar(word[i]) ELSE LowerChar(word[i])]

RECURSIVE ConcatAll(_)
ConcatAll(words) == IF words = <<>> THEN <<>> ELSE words[1] \o ConcatAll(Tail(words))

\* camel-case of a key: the words between underscores, all but the first
\* capitalized, an empty word kept as an underscore
to_camel_case(key) ==
  LET words == Split(key, "_")
  IN words[1] \o ConcatAll([i \in 1..(Len(words) - 1) |->
                              IF words[i + 1] = <<>> THEN s_underscore
                              ELSE Capitalize(words[i + 1])])

\* res[key] = value on the items of a dict
SetItem(items, key, value) ==
  IF \E i \in DOMAIN items : items[i][1] = key
  THEN [i \in DOMAIN items |-> IF items[i][1] = key THEN <<key, value>> ELSE items[i]]
  ELSE Append(items, <<key, value>>)

\* convert_dict_to_camel_case(dic), of the utilities library: every key of
\* the document, at every depth, also inside lists, becomes camel-case
RECURSIVE convert_dict_to_camel_case(_)
RECURSIVE convert_items(_, _)
convert_items(items, res) ==
  IF items = <<>> THEN res
  ELSE convert_items(Tail(items),
                     SetItem(res, to_camel_case(items[1][1]),
                             convert_dict_to_camel_case(items[1][2])))

convert_dict_to_camel_case(dic) ==
  IF dic.t = "dict" THEN Doc(convert_items(dic.items, <<>>))
  ELSE IF dic.t = "list" THEN PyList([i \in DOMAIN dic.v |-> convert_dict_to_camel_case(dic.v[i])])
  ELSE dic

IsConfigKeyOnly(key) == key = k_config

\* key == "config" or key == "clusterConfig"
IsConfigKey(key) == key = k_config \/ key = k_clusterConfig

\* _dfs_configuration(curr_props): the loop over curr_props.items(), from
\* item i on
RECURSIVE dfs_items(_, _)
dfs_items(items, i) ==
  IF i > Len(items) THEN None
  ELSE LET key == items[i][1]
           value == items[i][2]
       IN IF value.t = "dict"
          THEN IF IsConfigKey(key) THEN Doc(<< <<k_config, value>> >>)
               ELSE LET returned == dfs_items(value.items, 1)
                    IN IF returned.t # "None" THEN returned
                       ELSE dfs_items(items, i + 1)
          ELSE dfs_items(items, i + 1)

dfs_configuration(curr_props) == dfs_items(curr_props.items, 1)

\* _process_loaded_props(): nothing for the live container
process_loaded_props(kind, document) ==
  IF kind = "shadow" THEN dfs_configuration(convert_dict_to_camel_case(document))
  ELSE document

set_cluster_uuid_of_live(kind, document) == get_value(document, <<k_clusterUuid>>)

\* _set_cluster_uuid(): an offline cluster has no uuid
set_cluster_uuid(kind, document) ==
  IF kind = "shadow" THEN Returned(None) ELSE get_value(document, <<k_clusterUuid>>)

\* the check of the image version, lines 242-245
image_version_check(document) ==
  LET image_ver == get_image_version(document)
      incompatible_cluster ==
        get_incompatible_criteria([imageVersion |-> image_ver.value.v])
      report == incompatible_cluster.value.v
  IN IF image_ver.kind # "returned" THEN image_ver
     ELSE IF image_ver.value.t # "str" THEN Raised("AttributeError")
     ELSE IF incompatible_cluster.kind # "returned" THEN incompatible_cluster
     ELSE IF DOMAIN report # {}
          THEN Ended("returned", None, <<>>, <<>>,
                     <<[level |-> "warning", msg |-> report["comments"].v["imageVersion"].v]>>)
     ELSE Returned(None)

\* _init_fields() on the loaded document: the fields of the container
\* afterwards, and how the construction ended
init_fields(kind, document) ==
  LET processed == process_loaded_props(kind, document)
      id == set_cluster_uuid(kind, processed)
      count == get_value(processed, <<k_config, k_workerConfig, k_numInstances>>)
      checked == image_version_check(processed)
  IN IF id.kind # "returned"
     THEN [props |-> processed, uuid |-> None, workers_count |-> None, end |-> id]
     ELSE IF count.kind # "returned"
     THEN [props |-> processed, uuid |-> id.value, workers_count |-> None, end |-> count]
     ELSE [props |-> processed, uuid |-> id.value, workers_count |-> count.value,
           end |-> checked]

k_region == <<"r", "e", "g", "i", "o", "n">>
k_zone == <<"z", "o", "n", "e">>

\* self.props['config'][node_prefix_key][key] = value, of the shadow
\* container: the document afterwards, and how the statement ended.  Indexing
\* what is no dict with a key is a TypeError, a key that a dict has not is a
\* KeyError.
set_container_item(document, node_type, key, value) ==
  LET node_prefix_key == NodeConfigKey(node_type)
      config == Item(document, k_config)
      node == Item(config, node_prefix_key)
      failed(kind) == [props |-> document, end |-> Raised(kind)]
  IN IF document.t # "dict" THEN failed("TypeError")
     ELSE IF ~HasKey(document, k_config) THEN failed("KeyError")
     ELSE IF config.t # "dict" THEN failed("TypeError")
     ELSE IF ~HasKey(config, node_prefix_key) THEN failed("KeyError")
     ELSE IF node.t # "dict" THEN failed("TypeError")
     ELSE [props |-> Doc(SetItem(document.items, k_config,
                                 Doc(SetItem(config.items, node_prefix_key,
                                             Doc(SetItem(node.items, key, value)))))),
           end |-> Returned(None)]

\* set_container_region(node_type, region)
set_container_region(document, node_type, region) ==
  set_container_item(document, node_type, k_region, region)

\* set_container_zone(node_type, zone)
set_container_zone(document, node_type, zone) ==
  set_container_item(document, node_type, k_zone, zone)

\* _get_machine_info_for_node(node_type) of the shadow container: the machine
\* type is no URI, region and zone are what was set
shadow_get_machine_info_for_node(document, node_type) ==
  LET node_prefix_key == NodeConfigKey(node_type)
      machine_type == get_value(document, <<k_config, node_prefix_key, k_machineTypeUri>>)
      zone == get_value(document, <<k_config, node_prefix_key, k_zone>>)
      region == get_value(document, <<k_config, node_prefix_key, k_region>>)
  IN IF machine_type.kind # "returned" THEN machine_type
     ELSE IF zone.kind # "returned" THEN zone
     ELSE IF region.kind # "returned" THEN region
     ELSE Returned(PyTuple(<<region.value, zone.value, machine_type.value>>))

----------------------------------------------------------------------------
(* The state after construction, and what a call leaves behind *)

Init ==
  /\ fail_action = "None"
  /\ debug \in BOOLEAN
  /\ container = "none"
  /\ props = None
  /\ uuid = None
  /\ workers_count = None
  /\ call = [op |-> "none"]
  /\ outcome = "none"
  /\ ret = None
  /\ bails = <<>>
  /\ handled = <<>>
  /\ log = <<>>

\* No call is in progress or waiting to be taken up by its caller.
Idle == outcome = "none"

Finish(c, r) ==
  /\ call' = c
  /\ outcome' = r.kind
  /\ ret' = r.value
  /\ bails' = r.bails
  /\ handled' = r.handled
  /\ log' = r.log

\* The caller takes up the result of a call that returned and goes on.  bail,
\* an exiting fail_action and an uncaught exception end the program instead.
Continue ==
  /\ outcome = "returned"
  /\ Finish([op |-> "none"], Ended("none", None, <<>>, <<>>, <<>>))
  /\ UNCHANGED <<runner, fields>>

----------------------------------------------------------------------------
(* The compatibility rules, called on bounded inputs *)

MaxCores == 130
MaxSsds == 2

Families == { <<"n", "1">>, <<"n", "2">>, <<"e", "2">>, <<"N", "1">> }
Tiers == { <<"s", "t", "a", "n", "d", "a", "r", "d">>, <<"h", "i", "g", "h", "m", "e", "m">> }

\* <family>-<tier>-<n>
MachineTypeOf(family, tier, n) == family \o <<"-">> \o tier \o <<"-">> \o IntToStr(n)

WellFormedTypes ==
  {MachineTypeOf(f, t, n) : f \in Families, t \in Tiers, n \in 0..MaxCores}

\* identifiers of other shapes: e2-medium, custom, n2-standard-, n2-8,
\* n2-highmem-08, n2-custom-4-8
OtherTypes ==
  { <<"e", "2", "-", "m", "e", "d", "i", "u", "m">>,
    <<"c", "u", "s", "t", "o", "m">>,
    <<"n", "2", "-", "s", "t", "a", "n", "d", "a", "r", "d", "-">>,
    <<"n", "2", "-", "8">>,
    <<"n", "2", "-", "h", "i", "g", "h", "m", "e", "m", "-", "0", "8">>,
    <<"n", "2", "-", "c", "u", "s", "t", "o", "m", "-", "4", "-", "8">> }

\* the machine types tried as a criterion
CriterionTypes ==
  OtherTypes \cup
  {MachineTypeOf(f, <<"h", "i", "g", "h", "m", "e", "m">>, n) :
     f \in Families, n \in {6, MaxCores}}

\* 1.5-debian10, 2.0-debian10, 1.5, 1.4, 21.5, and the empty text
ImageVersions ==
  { <<"1", ".", "5", "-", "d", "e", "b", "i", "a", "n", "1", "0">>,
    <<"2", ".", "0", "-", "d", "e", "b", "i", "a", "n", "1", "0">>,
    <<"1", ".", "5">>, <<"1", ".", "4">>, <<"2", "1", ".", "5">>, <<>> }

\* Tesla T4, tesla v100-sxm2, NVIDIA A100-SXM4-40GB, Quadro, k80 p100, empty
GpuTexts ==
  { <<"T", "e", "s", "l", "a", " ", "T", "4">>,
    <<"t", "e", "s", "l", "a", " ", "v", "1", "0", "0", "-", "s", "x", "m", "2">>,
    <<"N", "V", "I", "D", "I", "A", " ", "A", "1", "0", "0", "-", "S", "X", "M", "4", "-", "4", "0", "G", "B">>,
    <<"Q", "u", "a", "d", "r", "o">>,
    <<"p", "1", "0", "0", " ", "k", "8", "0">>,
    <<>> }

CriteriaNames == {"imageVersion", "machineType", "workerLocalSSDs"}

\* every supplied combination: a subset of the names, a value for each
CriteriaContainers ==
  {[n \in names |-> [imageVersion |-> i, machineType |-> m, workerLocalSSDs |-> w][n]] :
     i \in ImageVersions, m \in CriterionTypes, w \in 0..MaxSsds,
     names \in SUBSET CriteriaNames}

ParseSupportedGpu ==
  /\ Idle
  /\ \E value \in GpuTexts :
       Finish([op |-> "parse_supported_gpu", value |-> value],
              Returned(parse_supported_gpu(value)))
  /\ UNCHANGED <<runner, fields>>

IsMachineCompatibleForGpu ==
  /\ Idle
  /\ \E machine_type \in WellFormedTypes \cup OtherTypes :
       Finish([op |-> "is_machine_compatible_for_gpu", machine_type |-> machine_type],
              Returned(PyBool(is_machine_compatible_for_gpu(machine_type))))
  /\ UNCHANGED <<runner, fields>>

MapToClosestSupportedMatch ==
  /\ Idle
  /\ \E machine_type \in WellFormedTypes \cup OtherTypes :
       Finish([op |-> "map_to_closest_supported_match", machine_type |-> machine_type],
              map_to_closest_supported_match(machine_type))
  /\ UNCHANGED <<runner, fields>>

GetIncompatibleCriteria ==
  /\ Idle
  /\ \E criteria_container \in CriteriaContainers :
       Finish([op |-> "get_incompatible_criteria",
               criteria_container |-> criteria_container],
              get_incompatible_criteria(criteria_container))
  /\ UNCHANGED <<runner, fields>>

NextRules ==
  \/ ParseSupportedGpu
  \/ IsMachineCompatibleForGpu
  \/ MapToClosestSupportedMatch
  \/ GetIncompatibleCriteria
  \/ Continue

SpecRules == Init /\ [][NextRules]_vars

----------------------------------------------------------------------------
(* Claims about the compatibility rules *)

Ladder == {2, 4, 8, 16, 32, 64, 96}

\* c is the smallest ladder value that is >= n, or 96 when there is none
ClosestOnLadder(n, c) ==
  /\ c \in Ladder
  /\ (\E d \in Ladder : d >= n) => (c >= n /\ \A d \in Ladder : d >= n => c <= d)
  /\ (\A d \in Ladder : d < n) => c = 96

\* C7: for every identifier <family>-<tier>-<n>, n a non-negative integer,
\* map_to_closest_supported_match returns n1-<tier>-<c>, c the smallest ladder
\* value >= n or 96 when n exceeds the ladder; the tier is kept and the result
\* is accepted by is_machine_compatible_for_gpu.
C7_ClosestSupportedMatch ==
  call.op = "map_to_closest_supported_match" =>
    \A f \in Families, t \in Tiers, n \in 0..MaxCores :
      call.machine_type = MachineTypeOf(f, t, n) =>
        /\ outcome = "returned"
        /\ ret.t = "str"
        /\ \E c \in Ladder :
             /\ ClosestOnLadder(n, c)
             /\ ret.v = <<"n", "1", "-">> \o t \o <<"-">> \o IntToStr(c)
        /\ is_machine_compatible_for_gpu(ret.v)

\* n2-highmem-128 was mapped to n1-highmem-96
C7_Witness ==
  /\ call.op = "map_to_closest_supported_match"
  /\ call.machine_type = <<"n", "2", "-", "h", "i", "g", "h", "m", "e", "m", "-", "1", "2", "8">>
  /\ outcome = "returned"
  /\ ret.v = <<"n", "1", "-", "h", "i", "g", "h", "m", "e", "m", "-", "9", "6">>

\* the rules of the three criteria, stated on the characters of the values
ImageVersionViolates(v) == Len(v) >= 3 /\ v[1] = "1" /\ v[2] = "." /\ v[3] = "5"
MachineTypeViolates(v) == ~(Len(v) >= 3 /\ v[1] \in {"n", "N"} /\ v[2] = "1" /\ v[3] = "-")

Violated(cc) ==
  {n \in DOMAIN cc :
     \/ n = "imageVersion" /\ ImageVersionViolates(cc[n])
     \/ n = "machineType" /\ MachineTypeViolates(cc[n])
     \/ n = "workerLocalSSDs" /\ cc[n] = 0}

\* the report that was returned is the one the rules give for the supplied
\* criteria
ReportAsRuled ==
    LET cc == call.criteria_container
        bad == Violated(cc)
        report == ret.v
    IN /\ ret.t = "dict"
       /\ (DOMAIN report) \ {"comments"} = bad
       /\ ("comments" \in DOMAIN report) <=> (bad # {})
       /\ (bad # {}) =>
            (report["comments"].t = "dict" /\ DOMAIN report["comments"].v = bad)
       /\ (DOMAIN report = {}) <=> (bad = {})
       /\ "imageVersion" \in bad =>
            (report["imageVersion"].t = "str"
               /\ report["imageVersion"].v = <<"2", ".", "0", "+">>)
       /\ "workerLocalSSDs" \in bad =>
            (report["workerLocalSSDs"].t = "int" /\ report["workerLocalSSDs"].v = 1)
       /\ "machineType" \in bad =>
            \A f \in Families, t \in Tiers, n \in 0..MaxCores :
              cc["machineType"] = MachineTypeOf(f, t, n) =>
                \E c \in Ladder :
                  /\ ClosestOnLadder(n, c)
                  /\ report["machineType"].t = "str"
                  /\ report["machineType"].v = <<"n", "1", "-">> \o t \o <<"-">> \o IntToStr(c)

\* C8: for every subset of the criteria and every value of each,
\* get_incompatible_criteria returns a report whose criterion keys are exactly
\* the supplied criteria that violate their rule, with the values 2.0+, the
\* closest n1 machine type and 1; comments is present iff some criterion is
\* violated and then has the same keys; the report is empty iff every supplied
\* criterion passes.
C8_ReportKeys ==
  call.op = "get_incompatible_criteria" =>
    (outcome = "returned" /\ ReportAsRuled)

\* C9: get_incompatible_criteria never fails: for every supplied combination
\* of criteria the call completes and returns a report.
C9_NeverFails ==
  call.op = "get_incompatible_criteria" => outcome = "returned"

----------------------------------------------------------------------------
(* The command runner, called on bounded inputs *)

MaxExit == 2

\* ls, cat x
Commands == { <<"l", "s">>, <<"c", "a", "t", " ", "x">> }

\* what a child process writes: nothing, one line, two lines, ended by \r\n,
\* \n or \r
StdoutTexts == { <<>>, <<"o", "k">>, <<"a", "\r", "\n", "b", "\n">> }
StderrTexts == { <<>>, <<"n", "o">>, <<"e", "\r", "f">> }

Processes ==
  [returncode : 0..MaxExit, stdout : StdoutTexts, stderr : StderrTexts]

\* absent, empty, "boom"
FailMessages == {None, PyStr(<<>>), PyStr(<<"b", "o", "o", "m">>)}

\* cli.fail_action = handler
SetFailAction ==
  /\ Idle
  /\ \E handler \in {"continue", "exit"} :
       /\ handler # fail_action
       /\ fail_action' = handler
  /\ UNCHANGED <<debug, fields, last>>

Invocation(op, cmd, expected, fail_ok, msg_fail, proc) ==
  [op |-> op, cmd |-> cmd, expected |-> expected, fail_ok |-> fail_ok,
   msg_fail |-> msg_fail, returncode |-> proc.returncode,
   stdout |-> proc.stdout, stderr |-> proc.stderr]

Run ==
  /\ Idle
  /\ \E cmd \in Commands, expected \in 0..1, fail_ok \in BOOLEAN,
        msg_fail \in FailMessages, proc \in Processes :
       Finish(Invocation("run", cmd, expected, fail_ok, msg_fail, proc),
              run(fail_action, debug, cmd, expected, fail_ok, msg_fail, proc))
  /\ UNCHANGED <<runner, fields>>

Gcloud ==
  /\ Idle
  /\ \E cmd \in Commands, expected \in 0..1, fail_ok \in BOOLEAN,
        msg_fail \in FailMessages, proc \in Processes :
       Finish(Invocation("gcloud", cmd, expected, fail_ok, msg_fail, proc),
              gcloud(fail_action, debug, cmd, expected, msg_fail, fail_ok, proc))
  /\ UNCHANGED <<runner, fields>>

Gsutil ==
  /\ Idle
  /\ \E cmd \in Commands, expected \in 0..1, fail_ok \in BOOLEAN,
        msg_fail \in FailMessages, proc \in Processes :
       Finish(Invocation("gsutil", cmd, expected, fail_ok, msg_fail, proc),
              gsutil(fail_action, debug, cmd, expected, msg_fail, fail_ok, proc))
  /\ UNCHANGED <<runner, fields>>

NextCmd ==
  \/ SetFailAction
  \/ Run
  \/ Gcloud
  \/ Gsutil
  \/ Continue

SpecCmd == Init /\ [][NextCmd]_vars

----------------------------------------------------------------------------
(* Claims about the command runner *)

RunOps == {"run", "gcloud", "gsutil"}

\* the command text the child process was started with
FullCommand ==
  IF call.op = "gcloud" THEN <<"g", "c", "l", "o", "u", "d", " ">> \o call.cmd
  ELSE IF call.op = "gsutil" THEN <<"g", "s", "u", "t", "i", "l", " ">> \o call.cmd
  ELSE call.cmd

UnexpectedExit == call.returncode # call.expected

\* the error names the command that was run
IsCommandError(ex) == ex.t = "Exception" /\ Contains(ex.v, FullCommand)

SameMessage(a, b) == a.t = b.t /\ (a.t = "str" => a.v = b.v)

GenericHeadline == <<"E", "r", "r", "o", "r", " ", "i", "n", "v", "o", "k", "i", "n", "g", " ", "c", "m", "d">>

\* the fatal-error path was taken once, with this headline, and nothing returned
HaltedWith(headline) ==
  /\ outcome = "bailed"
  /\ ret.t = "None"
  /\ handled = <<>>
  /\ Len(bails) = 1
  /\ bails[1][1].t = "str" /\ bails[1][1].v = headline
  /\ IsCommandError(bails[1][2])

\* the handler was invoked once, with the error and the message; no bail
HandlerInvokedOnce ==
  /\ bails = <<>>
  /\ Len(handled) = 1
  /\ IsCommandError(handled[1][1])
  /\ SameMessage(handled[1][2], call.msg_fail)

ReturnedStdout ==
  outcome = "returned" /\ ret.t = "str" /\ ret.v = call.stdout

\* C1 as stated: with allowFailure false and an exit code other than the
\* expected one, without a handler the program is halted through bail with
\* failureMessage as the headline when one is given and the generic headline
\* otherwise, and run returns nothing; with a handler the handler is invoked
\* exactly once with the error and the message, bail is not called and run
\* then returns the captured stdout.  With the expected exit code neither bail
\* nor the handler is called.
C1_AsStated ==
  (call.op \in RunOps /\ ~call.fail_ok) =>
    /\ (UnexpectedExit /\ fail_action = "None") =>
         HaltedWith(IF call.msg_fail.t = "str" THEN call.msg_fail.v ELSE GenericHeadline)
    /\ (UnexpectedExit /\ fail_action # "None") =>
         (HandlerInvokedOnce /\ ReturnedStdout)
    /\ ~UnexpectedExit => (bails = <<>> /\ handled = <<>>)

\* C1 as amended: the headline is failureMessage when it is given and not
\* empty; after the handler was invoked, run returns the captured stdout if
\* the handler returns, and returns nothing if the handler ends the program.
C1_FailureRouting ==
  (call.op \in RunOps /\ ~call.fail_ok) =>
    /\ (UnexpectedExit /\ fail_action = "None") =>
         HaltedWith(IF call.msg_fail.t = "str" /\ call.msg_fail.v # <<>>
                    THEN call.msg_fail.v ELSE GenericHeadline)
    /\ (UnexpectedExit /\ fail_action # "None") =>
         /\ HandlerInvokedOnce
         /\ fail_action = "continue" => ReturnedStdout
         /\ fail_action = "exit" => (outcome = "exited" /\ ret.t = "None")
    /\ ~UnexpectedExit => (bails = <<>> /\ handled = <<>>)

\* a command that was expected to exit with 1 exited with 2, and the
\* installed handler took the error and let run return
C1_Witness ==
  /\ call.op \in RunOps
  /\ ~call.fail_ok
  /\ call.expected = 1
  /\ call.returncode = 2
  /\ fail_action = "continue"
  /\ Len(handled) = 1
  /\ outcome = "returned"

\* C2: with allowFailure true, whatever the exit code and whether or not a
\* handler is installed, the process is not terminated, the handler is not
\* invoked, and run returns exactly the captured stdout.
C2_AllowFailure ==
  (call.op \in RunOps /\ call.fail_ok) =>
    (ReturnedStdout /\ bails = <<>> /\ handled = <<>>)

\* a tolerated command exited with an unexpected code while a handler was
\* installed, and its output was returned
C2_Witness ==
  /\ call.op \in RunOps
  /\ call.fail_ok
  /\ UnexpectedExit
  /\ fail_action = "exit"
  /\ call.stdout # <<>>
  /\ outcome = "returned"
  /\ ret.v = call.stdout

----------------------------------------------------------------------------
(* The live container, constructed and called on bounded inputs *)

MaxLines == 3

\* proj/zones/us-central1-a/machineTypes/n1-standard-8
uri_full ==
  <<"p", "r", "o", "j", "/", "z", "o", "n", "e", "s", "/", "u", "s", "-">>
  \o <<"c", "e", "n", "t", "r", "a", "l", "1", "-", "a", "/", "m", "a", "c">>
  \o <<"h", "i", "n", "e", "T", "y", "p", "e", "s", "/", "n", "1", "-", "s">>
  \o <<"t", "a", "n", "d", "a", "r", "d", "-", "8">>

\* zones/us-a/machineTypes/n2-highmem-4
uri_four ==
  <<"z", "o", "n", "e", "s", "/", "u", "s", "-", "a", "/", "m", "a", "c">>
  \o <<"h", "i", "n", "e", "T", "y", "p", "e", "s", "/", "n", "2", "-", "h">>
  \o <<"i", "g", "h", "m", "e", "m", "-", "4">>

\* proj/zones/us-a/machinetypes/n1-standard-8
uri_lowercase ==
  <<"p", "r", "o", "j", "/", "z", "o", "n", "e", "s", "/", "u", "s", "-">>
  \o <<"a", "/", "m", "a", "c", "h", "i", "n", "e", "t", "y", "p", "e", "s">>
  \o <<"/", "n", "1", "-", "s", "t", "a", "n", "d", "a", "r", "d", "-", "8">>

\* proj/regions/us-a/machineTypes/n1-standard-8
uri_regions ==
  <<"p", "r", "o", "j", "/", "r", "e", "g", "i", "o", "n", "s", "/", "u">>
  \o <<"s", "-", "a", "/", "m", "a", "c", "h", "i", "n", "e", "T", "y", "p">>
  \o <<"e", "s", "/", "n", "1", "-", "s", "t", "a", "n", "d", "a", "r", "d">>
  \o <<"-", "8">>

\* zones/us-a/machineTypes
uri_three ==
  <<"z", "o", "n", "e", "s", "/", "u", "s", "-", "a", "/", "m", "a", "c">>
  \o <<"h", "i", "n", "e", "T", "y", "p", "e", "s">>

\* n1-standard-8
uri_bare == <<"n", "1", "-", "s", "t", "a", "n", "d", "a", "r", "d", "-", "8">>

\* a/proj/x/us-a/y/n1
uri_other ==
  <<"a", "/", "p", "r", "o", "j", "/", "x", "/", "u", "s", "-", "a", "/">>
  \o <<"y", "/", "n", "1">>

\* proj/zones/useast/machineTypes/e2-medium
uri_flat_zone ==
  <<"p", "r", "o", "j", "/", "z", "o", "n", "e", "s", "/", "u", "s", "e">>
  \o <<"a", "s", "t", "/", "m", "a", "c", "h", "i", "n", "e", "T", "y", "p">>
  \o <<"e", "s", "/", "e", "2", "-", "m", "e", "d", "i", "u", "m">>

\* zones/us-a
uri_two == <<"z", "o", "n", "e", "s", "/", "u", "s", "-", "a">>

MachineTypeUris ==
  {uri_full, uri_four, uri_lowercase, uri_regions, uri_three, uri_bare,
   uri_other, uri_flat_zone, uri_two, <<>>}

\* proj/zones/us-central1-a
zone_uri ==
  <<"p", "r", "o", "j", "/", "z", "o", "n", "e", "s", "/", "u", "s", "-">>
  \o <<"c", "e", "n", "t", "r", "a", "l", "1", "-", "a">>

\* the description of a running cluster
LiveDocument(master_uri, worker_uri, image_ver) ==
  Doc(<< <<k_clusterUuid, PyStr(<<"u", "1">>)>>,
         <<k_config,
           Doc(<< <<k_gceClusterConfig, Doc(<< <<k_zoneUri, PyStr(zone_uri)>> >>)>>,
                  <<NodeConfigKey(node_master),
                    Doc(<< <<k_numInstances, PyInt(1)>>,
                           <<k_machineTypeUri, PyStr(master_uri)>> >>)>>,
                  <<NodeConfigKey(node_worker),
                    Doc(<< <<k_numInstances, PyInt(2)>>,
                           <<k_instanceNames,
                             PyList(<<PyStr(<<"w", "-", "0">>), PyStr(<<"w", "-", "1">>)>>)>>,
                           <<k_machineTypeUri, PyStr(worker_uri)>> >>)>>,
                  <<k_softwareConfig,
                    Doc(<< <<k_imageVersion, PyStr(image_ver)>> >>)>> >>)>> >>)

LiveDocuments ==
  {LiveDocument(m, w, <<"2", ".", "0", "-", "d", "e", "b", "i", "a", "n", "1", "0">>) :
     m \in {uri_full, uri_regions}, w \in MachineTypeUris}

\* the texts of up to MaxLines lines, each line ended by a newline
RECURSIVE TextsOf(_, _)
TextsOf(lines, n) ==
  IF n = 0 THEN { <<>> }
  ELSE { <<>> } \cup {l \o <<"\n">> \o rest : l \in lines, rest \in TextsOf(lines, n - 1)}

\* Tesla T4, Quadro, nvidia a100 with a carriage return before its newline
DeviceLines ==
  { <<"T", "e", "s", "l", "a", " ", "T", "4">>,
    <<"Q", "u", "a", "d", "r", "o">>,
    <<"n", "v", "i", "d", "i", "a", " ", "a", "1", "0", "0", "\r">> }

\* 15109 MiB, 8 MiB with a carriage return for its blank, Warning: 22 hosts,
\* 40960MiB
MemoryLines ==
  { <<"1", "5", "1", "0", "9", " ", "M", "i", "B">>,
    <<"8", "\r", "M", "i", "B">>,
    <<"W", "a", "r", "n", "i", "n", "g", ":", " ", "2", "2", " ", "h", "o", "s", "t", "s">>,
    <<"4", "0", "9", "6", "0", "M", "i", "B">> }

\* a remote command that worked, and one that did not
RemoteProcesses(outputs) ==
  {[returncode |-> 0, stdout |-> o, stderr |-> <<>>] : o \in outputs}
  \cup {[returncode |-> 1, stdout |-> o, stderr |-> <<"n", "o">>] : o \in outputs}

\* a live container is constructed over the description of the cluster
ConstructLive ==
  /\ Idle
  /\ container = "none"
  /\ \E document \in LiveDocuments :
       LET made == init_fields("live", document)
       IN /\ container' = "live"
          /\ props' = made.props
          /\ uuid' = made.uuid
          /\ workers_count' = made.workers_count
          /\ Finish([op |-> "construct", kind |-> "live", document |-> document], made.end)
  /\ UNCHANGED runner

\* __decode_machine_type_uri on the URI of a node, as lines 268-269 call it
DecodeMachineTypeUri ==
  /\ Idle
  /\ container = "live"
  /\ \E node_type \in {node_master, node_worker} :
       LET type_uri == get_value(props, <<k_config, NodeConfigKey(node_type), k_machineTypeUri>>)
       IN /\ type_uri.kind = "returned"
          /\ Finish([op |-> "decode_machine_type_uri", uri |-> type_uri.value.v],
                    decode_machine_type_uri(fail_action, type_uri.value.v))
  /\ UNCHANGED <<runner, fields>>

\* get_master_machine_info(), get_worker_machine_info()
GetMachineInfo ==
  /\ Idle
  /\ container = "live"
  /\ \E node_type \in {node_master, node_worker} :
       Finish([op |-> "get_machine_info", node_type |-> node_type,
               uri |-> get_value(props, <<k_config, NodeConfigKey(node_type),
                                          k_machineTypeUri>>).value.v],
              get_machine_info_for_node(fail_action, props, node_type))
  /\ UNCHANGED <<runner, fields>>

GetWorkerGpuDevice ==
  /\ Idle
  /\ container = "live"
  /\ \E proc \in RemoteProcesses(TextsOf(DeviceLines, MaxLines)) :
       Finish([op |-> "get_worker_gpu_device", returncode |-> proc.returncode,
               stdout |-> proc.stdout, stderr |-> proc.stderr],
              get_worker_gpu_device(fail_action, debug, props, proc))
  /\ UNCHANGED <<runner, fields>>

GetWorkerGpuInfo ==
  /\ Idle
  /\ container = "live"
  /\ \E proc \in RemoteProcesses(TextsOf(MemoryLines, MaxLines)) :
       Finish([op |-> "get_worker_gpu_info", returncode |-> proc.returncode,
               stdout |-> proc.stdout, stderr |-> proc.stderr],
              get_worker_gpu_info(fail_action, debug, props, proc))
  /\ UNCHANGED <<runner, fields>>

NextLive ==
  \/ SetFailAction
  \/ ConstructLive
  \/ DecodeMachineTypeUri
  \/ GetMachineInfo
  \/ GetWorkerGpuDevice
  \/ GetWorkerGpuInfo
  \/ Continue

SpecLive == Init /\ [][NextLive]_vars

----------------------------------------------------------------------------
(* Claims about the derivations of the live container *)

\* the operation handed a ValueError of its own to fail_action: it detected
\* its failure condition
FailureDetected == \E i \in DOMAIN handled : handled[i][1].t = "ValueError"

\* C3: a failed derivation never returns a best-effort value: when the
\* decoding of a machine-type URI, get_worker_gpu_device or
\* get_worker_gpu_info detects its failure condition, it returns no value to
\* its caller, also when the installed handler chooses to continue.
C3_NoBestEffortValue ==
  (call.op \in {"get_machine_info", "decode_machine_type_uri",
                "get_worker_gpu_device", "get_worker_gpu_info"}
     /\ FailureDetected) =>
    ~(outcome = "returned" /\ ret.t # "None")

\* the last four segments are zones, <zone>, machineTypes, <machineType>
UriSegments == Split(call.uri, "/")

WellFormedUri ==
  /\ Len(UriSegments) >= 4
  /\ UriSegments[Len(UriSegments) - 3] = <<"z", "o", "n", "e", "s">>
  /\ UriSegments[Len(UriSegments) - 1]
       = <<"m", "a", "c", "h", "i", "n", "e", "T", "y", "p", "e", "s">>

\* C4: decoding a machine-type URI succeeds, yielding (zone, machineType), iff
\* its last four segments are zones, <zone>, machineTypes, <machineType>; for
\* any other URI, when no handler is installed, the error is reported through
\* bail (a headline and the offending URI) and not through another crash.
C4_DecodeOrBail ==
  call.op = "decode_machine_type_uri" =>
    /\ outcome = "returned" <=> WellFormedUri
    /\ WellFormedUri =>
         /\ ret.t = "tuple"
         /\ ret.v[1].v = UriSegments[Len(UriSegments) - 2]
         /\ ret.v[2].v = UriSegments[Len(UriSegments)]
    /\ (~WellFormedUri /\ fail_action = "None") =>
         /\ outcome = "bailed"
         /\ Len(bails) = 1
         /\ Contains(bails[1][2].v, call.uri)

KnownGpuNames ==
  { <<"T", "4">>, <<"V", "1", "0", "0">>, <<"K", "8", "0">>,
    <<"A", "1", "0", "0">>, <<"P", "1", "0", "0">> }

Recognized(line) == \E name \in KnownGpuNames : Contains(Upper(line), name)

\* C5: get_worker_gpu_device parses each returned line: if the output has no
\* lines, or any one of its lines matches no known GPU name, the outcome is a
\* fatal error; a device name is returned only when every line matches.
C5_EveryLineParsed ==
  (call.op = "get_worker_gpu_device" /\ call.returncode = 0) =>
    LET lines == SplitLines(call.stdout)
    IN /\ (lines = <<>> \/ \E i \in DOMAIN lines : ~Recognized(lines[i])) =>
            outcome # "returned"
       /\ outcome = "returned" =>
            (ret.t = "str" /\ \A i \in DOMAIN lines : Recognized(lines[i]))

\* the readings of a text: where a run of digits starts that is followed by
\* blanks and MiB
IsBlank(c) == c \in {" ", "\t", "\n", "\r", "\f", ch_VT, ch_FS, ch_GS, ch_RS, ch_US}

ReadingAt(s, i, j) ==
  /\ \A x \in i..j : IsDigit(s[x])
  /\ i = 1 \/ ~IsDigit(s[i - 1])
  /\ \E k \in (j + 1)..(Len(s) - 3) :
       /\ \A x \in (j + 1)..k : IsBlank(s[x])
       /\ s[k + 1] = "M" /\ s[k + 2] = "i" /\ s[k + 3] = "B"

Readings(s) == {r \in (DOMAIN s) \X (DOMAIN s) : r[1] <= r[2] /\ ReadingAt(s, r[1], r[2])}

ReadingValue(s, r) == DigitsValue(SubSeq(s, r[1], r[2]))

\* C6: get_worker_gpu_info returns as the GPU count the number of readings
\* "digits, whitespace, MiB" and as the memory the maximum of their values,
\* whatever other lines there are; with zero readings the outcome is a fatal
\* error and no (count, memory) pair is produced.
C6_CountAndMaximum ==
  call.op = "get_worker_gpu_info" =>
    LET found == Readings(call.stdout)
    IN /\ (found # {} /\ call.returncode = 0) => outcome = "returned"
       /\ (found # {} /\ outcome = "returned") =>
            /\ ret.t = "tuple"
            /\ ret.v[1].v = Cardinality(found)
            /\ \E r \in found : ret.v[2].v = ReadingValue(call.stdout, r)
            /\ \A r \in found : ret.v[2].v >= ReadingValue(call.stdout, r)
       /\ found = {} => outcome # "returned"

----------------------------------------------------------------------------
(* The shadow container, constructed over bounded captured descriptions *)

MaxWrap == 1

k_worker_config == <<"w", "o", "r", "k", "e", "r", "_", "c", "o", "n", "f", "i", "g">>
k_num_instances == <<"n", "u", "m", "_", "i", "n", "s", "t", "a", "n", "c", "e", "s">>
k_software_config ==
  <<"s", "o", "f", "t", "w", "a", "r", "e", "_", "c", "o", "n", "f", "i">>
  \o <<"g">>
k_image_version == <<"i", "m", "a", "g", "e", "_", "v", "e", "r", "s", "i", "o", "n">>
image_20 == <<"2", ".", "0", "-", "d", "e", "b", "i", "a", "n", "1", "0">>
image_15 == <<"1", ".", "5", ".", "3", "-", "d", "e", "b", "i", "a", "n", "1", "0">>

\* a configuration as a capture in snake-case writes it, and one in camel-case
config_snake ==
  Doc(<< <<k_worker_config, Doc(<< <<k_num_instances, PyInt(2)>> >>)>>,
         <<k_software_config, Doc(<< <<k_image_version, PyStr(image_20)>> >>)>> >>)

config_camel ==
  Doc(<< <<k_workerConfig,
           Doc(<< <<k_numInstances, PyInt(3)>>,
                  <<k_machineTypeUri,
                    PyStr(<<"n", "1", "-", "s", "t", "a", "n", "d", "a", "r", "d", "-", "8">>)>> >>)>>,
         <<k_softwareConfig, Doc(<< <<k_imageVersion, PyStr(image_15)>> >>)>> >>)

\* what a key of a captured description holds beside a nested description
Leaves == {PyStr(<<"x">>), Doc(<<>>), config_snake, config_camel}

PlainKeys == {k_config, k_cluster_config, k_other_key}

Single(k, v) == Doc(<< <<k, v>> >>)
Pair(k1, v1, k2, v2) == Doc(<< <<k1, v1>>, <<k2, v2>> >>)

\* the keys and values that stand beside another key
SideKeys == {k_config, k_cluster_config}
SideLeaves == {PyStr(<<"x">>), config_camel}

\* descriptions with nothing nested: one key, or the two configuration keys
\* in either order
FlatDocuments ==
  {Single(k, v) : k \in PlainKeys, v \in Leaves}
  \cup UNION {{Pair(k1, v1, k2, v2) : v1 \in Leaves, v2 \in Leaves, k2 \in SideKeys \ {k1}} :
                 k1 \in SideKeys}

\* the descriptions that wrap d one level deeper, alone, after or before
\* another key
Wrappings(d) ==
  {Single(k_wrapper, d)}
  \cup {Pair(k, v, k_wrapper, d) : k \in SideKeys, v \in SideLeaves}
  \cup {Pair(k_wrapper, d, k, v) : k \in SideKeys, v \in SideLeaves}

RECURSIVE ShadowDocuments(_)
ShadowDocuments(n) ==
  IF n = 0 THEN FlatDocuments
  ELSE LET inner == ShadowDocuments(n - 1)
       IN inner \cup UNION {Wrappings(d) : d \in inner}

LookupPaths ==
  { <<k_config>>, <<k_config, k_workerConfig, k_numInstances>>,
    <<k_config, k_softwareConfig, k_imageVersion>>, <<k_clusterConfig>>,
    <<k_wrapper>>, <<k_otherKey>> }

\* a shadow container is constructed over a captured description
ConstructShadow ==
  /\ Idle
  /\ container = "none"
  /\ \E document \in ShadowDocuments(MaxWrap) :
       LET made == init_fields("shadow", document)
       IN /\ container' = "shadow"
          /\ props' = made.props
          /\ uuid' = made.uuid
          /\ workers_count' = made.workers_count
          /\ Finish([op |-> "construct", kind |-> "shadow", document |-> document], made.end)
  /\ UNCHANGED runner

\* get_value(*keys) on the constructed container
GetValue ==
  /\ Idle
  /\ container = "shadow"
  /\ \E keys \in LookupPaths :
       Finish([op |-> "get_value", keys |-> keys], get_value(props, keys))
  /\ UNCHANGED <<runner, fields>>

\* get_image_version() on the constructed container
GetImageVersion ==
  /\ Idle
  /\ container = "shadow"
  /\ Finish([op |-> "get_image_version"], get_image_version(props))
  /\ UNCHANGED <<runner, fields>>

\* us-central1, and us-central1-a
Regions == { PyStr(<<"u", "s", "-", "c", "e", "n", "t", "r", "a", "l", "1">>) }
Zones == { PyStr(<<"u", "s", "-", "c", "e", "n", "t", "r", "a", "l", "1", "-", "a">>) }

\* set_container_region(node_type, region) on the shadow container
SetContainerRegion ==
  /\ Idle
  /\ container = "shadow"
  /\ \E node_type \in {node_master, node_worker}, region \in Regions :
       LET done == set_container_region(props, node_type, region)
       IN /\ props' = done.props
          /\ Finish([op |-> "set_container_region", node_type |-> node_type,
                     region |-> region], done.end)
  /\ UNCHANGED <<runner, container, uuid, workers_count>>

\* set_container_zone(node_type, zone) on the shadow container
SetContainerZone ==
  /\ Idle
  /\ container = "shadow"
  /\ \E node_type \in {node_master, node_worker}, zone \in Zones :
       LET done == set_container_zone(props, node_type, zone)
       IN /\ props' = done.props
          /\ Finish([op |-> "set_container_zone", node_type |-> node_type,
                     zone |-> zone], done.end)
  /\ UNCHANGED <<runner, container, uuid, workers_count>>

\* get_master_machine_info(), get_worker_machine_info() on the shadow
\* container
GetShadowMachineInfo ==
  /\ Idle
  /\ container = "shadow"
  /\ \E node_type \in {node_master, node_worker} :
       Finish([op |-> "shadow_get_machine_info", node_type |-> node_type],
              shadow_get_machine_info_for_node(props, node_type))
  /\ UNCHANGED <<runner, fields>>

NextShadow ==
  \/ ConstructShadow
  \/ GetValue
  \/ GetImageVersion
  \/ SetContainerRegion
  \/ SetContainerZone
  \/ GetShadowMachineInfo
  \/ Continue

SpecShadow == Init /\ [][NextShadow]_vars

----------------------------------------------------------------------------
(* Claims about the pre-processing of the shadow container *)

\* the places of a document: the index paths to its items, at every depth
RECURSIVE PlacesOf(_)
PlacesOf(d) ==
  IF d.t # "dict" THEN { <<>> }
  ELSE { <<>> } \cup UNION {{<<i>> \o p : p \in PlacesOf(d.items[i][2])} : i \in DOMAIN d.items}

RECURSIVE ValueAt(_, _)
ValueAt(d, p) == IF p = <<>> THEN d ELSE ValueAt(d.items[p[1]][2], Tail(p))

KeyAt(d, p) == ValueAt(d, SubSeq(p, 1, Len(p) - 1)).items[p[Len(p)]][1]

\* p is met before q when the document is walked depth-first
MetBefore(p, q) ==
  \E k \in 1..Len(q) :
    /\ k - 1 <= Len(p)
    /\ SubSeq(p, 1, k - 1) = SubSeq(q, 1, k - 1)
    /\ (k > Len(p) \/ p[k] < q[k])

\* the places of the mappings under a key that reads config or clusterConfig
\* once the keys are camel-case
ConfigPlaces(d) ==
  {p \in PlacesOf(d) \ { <<>> } :
     /\ to_camel_case(KeyAt(d, p)) \in {<<"c", "o", "n", "f", "i", "g">>,
                                        <<"c", "l", "u", "s", "t", "e", "r", "C", "o", "n", "f", "i", "g">>}
     /\ ValueAt(d, p).t = "dict"}

FirstConfigPlace(d) ==
  CHOOSE p \in ConfigPlaces(d) : \A q \in ConfigPlaces(d) \ {p} : MetBefore(p, q)

\* C10: after the pre-processing of the shadow container the document is
\* exactly {config: V}, V the first mapping met depth-first, at any depth,
\* under a key config or clusterConfig, so that lookups under config succeed
\* and nothing outside V is found; with no such mapping anywhere the document
\* is absent and the lookups of the construction fail as missing
\* configuration.
C10_ReRootedAtConfig ==
  /\ (call.op = "construct" /\ call.kind = "shadow") =>
       LET found == ConfigPlaces(call.document)
           V == convert_dict_to_camel_case(ValueAt(call.document, FirstConfigPlace(call.document)))
       IN /\ found # {} =>
               props = Doc(<< <<k_config, V>> >>)
          /\ found = {} =>
               /\ props.t = "None"
               /\ outcome = "missing_config"
               /\ workers_count.t = "None"
  /\ (call.op = "get_value" /\ container = "shadow") =>
       /\ props.t = "dict"
       /\ call.keys = <<k_config>> => (outcome = "returned" /\ ret = props.items[1][2])
       /\ call.keys[1] # k_config => outcome = "missing_config"
       /\ call.keys = <<k_config, k_workerConfig, k_numInstances>> =>
            (outcome = "returned" /\ ret = workers_count)

\* a description with the configuration under cluster_config, inside a
\* wrapper that has a neighbour, was re-rooted and the container constructed
C10_Witness ==
  /\ call.op = "construct"
  /\ call.kind = "shadow"
  /\ outcome = "returned"
  /\ Len(call.document.items) = 2
  /\ ConfigPlaces(call.document) # {}
  /\ Len(FirstConfigPlace(call.document)) >= 2
  /\ KeyAt(call.document, FirstConfigPlace(call.document)) = k_cluster_config
  /\ props.t = "dict"
  /\ props.items[1][1] = k_config
  /\ workers_count = PyInt(2)

----------------------------------------------------------------------------
(* Construction of both containers over descriptions with and without the
   fields that _init_fields reads *)

k_cluster_uuid == <<"c", "l", "u", "s", "t", "e", "r", "_", "u", "u", "i", "d">>

\* 1.5, 11.5.2, 2.1.5-debian10
image_15_bare == <<"1", ".", "5">>
image_11 == <<"1", "1", ".", "5", ".", "2">>
image_21 == <<"2", ".", "1", ".", "5", "-", "d", "e", "b", "i", "a", "n", "1", "0">>

DescribedImages == {image_20, image_15, image_15_bare, image_11, image_21}

ItemIf(present, key, value) == IF present THEN << <<key, value>> >> ELSE <<>>

\* a description of a cluster: with or without its uuid, its number of
\* workers and its image version, its keys in camel-case or in snake-case
Description(snake, has_uuid, has_count, has_image, image) ==
  Doc(ItemIf(has_uuid, IF snake THEN k_cluster_uuid ELSE k_clusterUuid,
             PyStr(<<"u", "1">>))
      \o << <<k_config,
              Doc(<< <<IF snake THEN k_worker_config ELSE k_workerConfig,
                       Doc(ItemIf(has_count,
                                  IF snake THEN k_num_instances ELSE k_numInstances,
                                  PyInt(2)))>>,
                     <<IF snake THEN k_software_config ELSE k_softwareConfig,
                       Doc(ItemIf(has_image,
                                  IF snake THEN k_image_version ELSE k_imageVersion,
                                  PyStr(image)))>> >>)>> >>)

Descriptions ==
  LET plain == {Description(snake, has_uuid, has_count, has_image, image) :
                  snake \in BOOLEAN, has_uuid \in BOOLEAN, has_count \in BOOLEAN,
                  has_image \in BOOLEAN, image \in DescribedImages}
  IN plain \cup {Single(k_wrapper, d) : d \in plain} \cup {Single(k_other_key, PyStr(<<"x">>))}

\* a container of either kind is constructed over a description
Construct ==
  /\ Idle
  /\ container = "none"
  /\ \E kind \in {"live", "shadow"}, document \in Descriptions :
       LET made == init_fields(kind, document)
       IN /\ container' = kind
          /\ props' = made.props
          /\ uuid' = made.uuid
          /\ workers_count' = made.workers_count
          /\ Finish([op |-> "construct", kind |-> kind, document |-> document], made.end)
  /\ UNCHANGED runner

NextConstruct ==
  \/ Construct
  \/ GetImageVersion
  \/ SetContainerRegion
  \/ SetContainerZone
  \/ Continue

SpecConstruct == Init /\ [][NextConstruct]_vars

----------------------------------------------------------------------------
(* Claims about the construction *)

\* the document that the pre-processing of a container of this kind leaves
Rooted(kind, document) ==
  IF kind = "shadow"
  THEN IF ConfigPlaces(document) = {} THEN None
       ELSE Doc(<< <<k_config,
                     convert_dict_to_camel_case(
                       ValueAt(document, FirstConfigPlace(document)))>> >>)
  ELSE document

HasField(d, k) == d.t = "dict" /\ HasKey(d, k)
HasPath(d, k1, k2, k3) ==
  /\ HasField(d, k1)
  /\ HasField(Item(d, k1), k2)
  /\ HasField(Item(Item(d, k1), k2), k3)
AtPath(d, k1, k2, k3) == Item(Item(Item(d, k1), k2), k3)

SameValue(a, b) == a.t = b.t /\ (a.t = "None" \/ a = b)

BeginsWithOneFive(text) == Len(text) >= 3 /\ SubSeq(text, 1, 3) = <<"1", ".", "5">>

\* C11: construction pre-processes the document, then stores the cluster
\* identifier (absent for the shadow container), then the number of workers,
\* then checks the image version, each lookup reading the pre-processed
\* document: a step whose field is missing ends the construction with the
\* earlier fields stored and the later ones not.  When the image version
\* starts with 1.5 exactly one warning, the imageVersion comment, is logged and
\* the construction completes with identifier and number of workers stored;
\* otherwise nothing is logged.
C11_ConstructionOrder ==
  call.op = "construct" =>
    LET P == Rooted(call.kind, call.document)
        idOK == call.kind = "shadow" \/ HasField(P, k_clusterUuid)
        id == IF call.kind = "shadow" THEN None ELSE Item(P, k_clusterUuid)
        countOK == HasPath(P, k_config, k_workerConfig, k_numInstances)
        imageOK == HasPath(P, k_config, k_softwareConfig, k_imageVersion)
        image == AtPath(P, k_config, k_softwareConfig, k_imageVersion).v
    IN /\ SameValue(props, P)
       /\ ~idOK =>
            /\ outcome = "missing_config"
            /\ uuid.t = "None" /\ workers_count.t = "None" /\ log = <<>>
       /\ (idOK /\ ~countOK) =>
            /\ outcome = "missing_config"
            /\ SameValue(uuid, id) /\ workers_count.t = "None" /\ log = <<>>
       /\ (idOK /\ countOK) =>
            /\ SameValue(uuid, id)
            /\ workers_count = AtPath(P, k_config, k_workerConfig, k_numInstances)
       /\ (idOK /\ countOK /\ ~imageOK) => (outcome = "missing_config" /\ log = <<>>)
       /\ (idOK /\ countOK /\ imageOK) =>
            /\ outcome = "returned"
            /\ log = IF BeginsWithOneFive(image)
                     THEN <<[level |-> "warning",
                             msg |-> image_comment_head \o image \o image_comment_tail]>>
                     ELSE <<>>

\* a live container was constructed over a description with a 1.5 image: one
\* warning, and uuid and number of workers are stored
C11_Witness ==
  /\ call.op = "construct"
  /\ call.kind = "live"
  /\ outcome = "returned"
  /\ Len(log) = 1
  /\ log[1].level = "warning"
  /\ uuid.t = "str"
  /\ workers_count = PyInt(2)

----------------------------------------------------------------------------
(* Claims about the debug log of CMDRunner *)

EveryLineIn(text, msg) ==
  \A i \in DOMAIN SplitLines(text) : Contains(msg, SplitLines(text)[i])

\* C12: with the debug flag set every invocation of run, whether the command
\* succeeded or failed and also when its unexpected exit code goes to the
\* default fatal-error path, leaves one debug log entry with the command text
\* and the captured stdout and stderr that are not empty.
C12_EveryRunLogged ==
  (call.op \in RunOps /\ debug) =>
    /\ Len(log) = 1
    /\ log[1].level = "debug"
    /\ Contains(log[1].msg, FullCommand)
    /\ EveryLineIn(call.stdout, log[1].msg)
    /\ EveryLineIn(call.stderr, log[1].msg)

====
